---- MODULE Spec2Model ----
(***************************************************************************)
(* Model of resolvedvelocities/ResolveVectors.py: the ResolveVectors       *)
(* pipeline (read_data, filter_data, transform, ion_outflow_correction,    *)
(* bin_data, get_integration_periods, compute_vectors) and the module      *)
(* function vvels.                                                         *)
(*                                                                         *)
(* Conventions.                                                            *)
(*  - numpy arrays are sequences; Python index i is TLA+ index i+1.        *)
(*  - A float of the input arrays is an integer or the value NaN.  IEEE    *)
(*    infinities are not drawn: the pipeline's missing-data value is NaN.  *)
(*  - A float computed by vvels is an exact rational <<n, d>> in lowest    *)
(*    terms with d > 0; <<0, 0>> is NaN.                                   *)
(*  - Latitudes and longitudes are in millidegrees, altitudes in metres.   *)
(*  - self.vlos and self.dvlos are the contents of the array objects the   *)
(*    attributes name.  An assignment through an index changes the object  *)
(*    in place, so every variable that stands for the same object changes  *)
(*    with it (read_dvlos, filt_vlos, filt_dvlos).                         *)
(***************************************************************************)
EXTENDS Integers, Sequences, FiniteSets, TLC

VARIABLES
    datafile,          \* contents of the fit file named by DATAFILE
    chirp, neMin, integration_time, covar, ppp, minalt, maxalt,
    minnumpoints, upB_beamcode,                    \* config.ini values
    time, alt, lat, lon, ke, kn, kz, vlos, dvlos, ne,   \* read_data
    upB,               \* the up-B beam's alt, vlos and dvlos (read_data)
    read_vlos, read_dvlos,   \* contents of the array objects read_data built
    filt_vlos, filt_dvlos,   \* contents of the array objects that self.vlos
                             \* and self.dvlos named when filter_data returned
    mlat, mlon, A, D,                              \* transform
    bin_mlat, bin_mlon, bin_idx,                   \* bin_data
    int_period, int_idx,                           \* get_integration_periods
    Velocity, VelocityCovariance,                  \* compute_vectors
    ElectricField, ElectricFieldCovariance,
    pc,                \* the pipeline stage to run next (or that raised)
    raised             \* the exception that ended the run at stage pc, or "none"

config == <<chirp, neMin, integration_time, covar, ppp, minalt, maxalt,
            minnumpoints, upB_beamcode>>
data == <<time, alt, lat, lon, ke, kn, kz, vlos, dvlos, ne, upB,
          read_vlos, read_dvlos, filt_vlos, filt_dvlos>>
apexout == <<mlat, mlon, A, D>>
bins == <<bin_mlat, bin_mlon, bin_idx>>
periods == <<int_period, int_idx>>
results == <<Velocity, VelocityCovariance, ElectricField, ElectricFieldCovariance>>
vars == <<datafile, config, data, apexout, bins, periods, results, pc, raised>>

----------------------------------------------------------------------------
(* Floats of the input arrays: integers and NaN.                           *)

NaN == -999999999
None == -999999998

IsNaN(x) == x = NaN
IsFinite(x) == x # NaN

\* x < y, x > y, x >= y of IEEE floats: every comparison with NaN is false
FLt(x, y) == x # NaN /\ y # NaN /\ x < y
FGt(x, y) == x # NaN /\ y # NaN /\ x > y
FGe(x, y) == x # NaN /\ y # NaN /\ x >= y

FAdd(x, y) == IF x = NaN \/ y = NaN THEN NaN ELSE x + y
FAbs(x) == IF x = NaN THEN NaN ELSE IF x < 0 THEN -x ELSE x

\* np.sqrt of an integer that is a perfect square
Sqrt(x) == IF x = NaN THEN NaN ELSE CHOOSE r \in 0..x : r * r = x

\* a function over 1..n as a concrete sequence
RECURSIVE SeqOf(_, _)
SeqOf(f, n) == IF n <= 0 THEN <<>> ELSE Append(SeqOf(f, n - 1), f[n])

RECURSIVE SumSeq(_)
SumSeq(s) == IF s = <<>> THEN 0 ELSE Head(s) + SumSeq(Tail(s))

\* the elements of s at the positions where keep is TRUE (boolean-mask indexing)
RECURSIVE Mask(_, _)
Mask(s, keep) ==
    IF s = <<>> THEN <<>>
    ELSE IF Head(keep) THEN <<Head(s)>> \o Mask(Tail(s), Tail(keep))
         ELSE Mask(Tail(s), Tail(keep))

\* the positions (ascending) where keep is TRUE: np.argwhere(keep).flatten()
RECURSIVE ArgWhereFrom(_, _)
ArgWhereFrom(keep, k) ==
    IF k > Len(keep) THEN <<>>
    ELSE IF keep[k] THEN <<k>> \o ArgWhereFrom(keep, k + 1)
         ELSE ArgWhereFrom(keep, k + 1)
ArgWhere(keep) == ArgWhereFrom(keep, 1)

\* ndarray.flatten of a list of rows
RECURSIVE Flatten(_)
Flatten(ss) == IF ss = <<>> THEN <<>> ELSE Head(ss) \o Flatten(Tail(ss))

----------------------------------------------------------------------------
(* Exact rationals for the linear algebra of vvels.                        *)

RECURSIVE GCD(_, _)
GCD(a, b) == IF b = 0 THEN a ELSE GCD(b, a % b)
Abs(x) == IF x < 0 THEN -x ELSE x

RNaN == <<0, 0>>
RIsNaN(q) == q[2] = 0
RNorm(n, d) ==
    LET g == GCD(Abs(n), Abs(d))
    IN IF d = 0 THEN RNaN
       ELSE IF d < 0 THEN <<(-n) \div g, (-d) \div g>>
       ELSE <<n \div g, d \div g>>
\* the float of an input array as a rational
R(x) == IF x = NaN THEN RNaN ELSE <<x, 1>>
RZero == <<0, 1>>
RAdd(p, q) == IF RIsNaN(p) \/ RIsNaN(q) THEN RNaN
              ELSE IF p[1] = 0 THEN q
              ELSE IF q[1] = 0 THEN p
              ELSE RNorm(p[1] * q[2] + q[1] * p[2], p[2] * q[2])
RSub(p, q) == IF RIsNaN(p) \/ RIsNaN(q) THEN RNaN
              ELSE IF q[1] = 0 THEN p
              ELSE RNorm(p[1] * q[2] - q[1] * p[2], p[2] * q[2])
RMul(p, q) == IF RIsNaN(p) \/ RIsNaN(q) THEN RNaN
              ELSE IF p[1] = 0 \/ q[1] = 0 THEN RZero
              ELSE RNorm(p[1] * q[1], p[2] * q[2])
\* p / q for q # 0
RDiv(p, q) == IF RIsNaN(p) \/ RIsNaN(q) THEN RNaN
              ELSE IF p[1] = 0 THEN RZero
              ELSE RNorm(p[1] * q[2], p[2] * q[1])

RECURSIVE RSum(_)
RSum(s) == IF s = <<>> THEN RZero ELSE RAdd(Head(s), RSum(Tail(s)))

----------------------------------------------------------------------------
(* Matrices are sequences of rows.  np.linalg.inv by Gauss-Jordan          *)
(* elimination over the rationals.                                         *)

Identity(n) == SeqOf([i \in 1..n |-> SeqOf([j \in 1..n |->
                   IF i = j THEN <<1, 1>> ELSE RZero], n)], n)

MatHasNaN(M) == \E i \in 1..Len(M) : \E j \in 1..Len(M[i]) : RIsNaN(M[i][j])

MatAdd(M, N) == SeqOf([i \in 1..Len(M) |-> SeqOf([j \in 1..Len(M[i]) |->
                    RAdd(M[i][j], N[i][j])], Len(M[i]))], Len(M))

\* the outcome of an inversion: the inverse, or LinAlgError raised
Returned(M) == [raises |-> FALSE, m |-> M]
LinAlgError == [raises |-> TRUE, m |-> <<>>]

\* columns k..n of the augmented matrix [M | I] are left to reduce
RECURSIVE GaussJordan(_, _, _)
GaussJordan(aug, k, n) ==
    IF k > n THEN Returned(aug)
    ELSE LET rows == {r \in k..n : aug[r][k] # RZero}
         IN IF rows = {} THEN LinAlgError
            ELSE LET p == CHOOSE r \in rows : \A s \in rows : r <= s
                     sw == [aug EXCEPT ![k] = aug[p], ![p] = aug[k]]
                     piv == sw[k][k]
                     prow == SeqOf([j \in 1..2 * n |-> RDiv(sw[k][j], piv)], 2 * n)
                     el == SeqOf([r \in 1..n |->
                              IF r = k THEN prow
                              ELSE IF sw[r][k] = RZero THEN sw[r]
                              ELSE SeqOf([j \in 1..2 * n |->
                                       RSub(sw[r][j], RMul(sw[r][k], prow[j]))],
                                         2 * n)], n)
                 IN GaussJordan(el, k + 1, n)

\* the exact inverse of a square matrix without NaN; a singular matrix raises
ExactInv(M) ==
    LET n == Len(M)
        aug == SeqOf([i \in 1..n |-> M[i] \o Identity(n)[i]], n)
        red == GaussJordan(aug, 1, n)
    IN IF red.raises THEN LinAlgError
       ELSE Returned(SeqOf([i \in 1..n |-> SubSeq(red.m[i], n + 1, 2 * n)], n))

\* np.linalg.inv(M).  A matrix holding NaN has no defined outcome in LAPACK:
\* the factorisation either meets an exact zero pivot (LinAlgError) or
\* returns an all-NaN inverse; nanraises selects which.
inv(M, nanraises) ==
    IF MatHasNaN(M)
    THEN IF nanraises THEN LinAlgError
         ELSE Returned(SeqOf([i \in 1..Len(M) |->
                          SeqOf([j \in 1..Len(M) |-> RNaN], Len(M))], Len(M)))
    ELSE ExactInv(M)

\* np.diagflat(v)
diagflat(v) == SeqOf([i \in 1..Len(v) |-> SeqOf([j \in 1..Len(v) |->
                   IF i = j THEN v[i] ELSE RZero], Len(v))], Len(v))

NaN3 == <<RNaN, RNaN, RNaN>>
NaN33 == <<NaN3, NaN3, NaN3>>

RECURSIVE RSumTo(_, _)
RSumTo(f, n) == IF n = 0 THEN RZero ELSE RAdd(RSumTo(f, n - 1), f[n])

\* number of TRUE entries: sum(finite)
RECURSIVE CountTrue(_)
CountTrue(keep) ==
    IF keep = <<>> THEN 0
    ELSE (IF Head(keep) THEN 1 ELSE 0) + CountTrue(Tail(keep))

\* finite = np.isfinite(vlos)
vvels_finite(vlos_) == SeqOf([i \in 1..Len(vlos_) |-> IsFinite(vlos_[i])], Len(vlos_))

\* np.einsum('jk,kl,ml->jm',A,SigmaV,A) + SigmaE
vvels_M1(A_, SigmaV, SigmaE, n) ==
    SeqOf([j \in 1..n |-> SeqOf([m \in 1..n |->
        RAdd(RSumTo([k \in 1..3 |-> RSumTo([l \in 1..3 |->
                 RMul(RMul(A_[j][k], SigmaV[k][l]), A_[m][l])], 3)], 3),
             SigmaE[j][m])], n)], n)

\* np.einsum('jk,lk,lm,m->j',SigmaV,A,I,vlos)
vvels_V(SigmaV, A_, I_, vlos_, n) ==
    SeqOf([j \in 1..3 |->
        RSumTo([k \in 1..3 |-> RSumTo([l \in 1..n |-> RSumTo([m \in 1..n |->
            RMul(RMul(RMul(SigmaV[j][k], A_[l][k]), I_[l][m]), vlos_[m])],
                n)], n)], 3)], 3)

\* np.einsum('kj,kl,lm->jm',A,np.linalg.inv(SigmaE),A) + np.linalg.inv(SigmaV)
vvels_M2(A_, iSigmaE, iSigmaV, n) ==
    SeqOf([j \in 1..3 |-> SeqOf([m \in 1..3 |->
        RAdd(RSumTo([k \in 1..n |-> RSumTo([l \in 1..n |->
                 RMul(RMul(A_[k][j], iSigmaE[k][l]), A_[l][m])], n)], n),
             iSigmaV[j][m])], 3)], 3)

\* a try block whose except branch hands back the prior instead of NaN
vvels_try_uncaught(vlos_, dvlos_, A_, cov, nanraises) ==
    LET n == Len(vlos_)
        SigmaE == diagflat(SeqOf([i \in 1..n |-> RMul(dvlos_[i], dvlos_[i])], n))
        SigmaV == diagflat(cov)
        I_ == inv(vvels_M1(A_, SigmaV, SigmaE, n), nanraises)
        iSigmaE == inv(SigmaE, nanraises)
        iSigmaV == inv(SigmaV, nanraises)
        SigV == inv(vvels_M2(A_, iSigmaE.m, iSigmaV.m, n), nanraises)
    IN IF I_.raises \/ iSigmaE.raises \/ iSigmaV.raises \/ SigV.raises
       THEN [V |-> <<RZero, RZero, RZero>>, SigV |-> SigmaV, caught |-> TRUE]
       ELSE [V |-> vvels_V(SigmaV, A_, I_.m, vlos_, n), SigV |-> SigV.m,
             caught |-> FALSE]

\* the try block of vvels: the posterior, or the except branch's NaN
vvels_try(vlos_, dvlos_, A_, cov, nanraises) ==
    LET n == Len(vlos_)
        SigmaE == diagflat(SeqOf([i \in 1..n |-> RMul(dvlos_[i], dvlos_[i])], n))
        SigmaV == diagflat(cov)
        I_ == inv(vvels_M1(A_, SigmaV, SigmaE, n), nanraises)
        iSigmaE == inv(SigmaE, nanraises)
        iSigmaV == inv(SigmaV, nanraises)
        SigV == inv(vvels_M2(A_, iSigmaE.m, iSigmaV.m, n), nanraises)
    IN IF I_.raises \/ iSigmaE.raises \/ iSigmaV.raises \/ SigV.raises
       THEN [V |-> NaN3, SigV |-> NaN33, caught |-> TRUE]
       ELSE [V |-> vvels_V(SigmaV, A_, I_.m, vlos_, n), SigV |-> SigV.m,
             caught |-> FALSE]

\* vvels without the test of the number of points
vvels_no_minimum(vlos_, dvlos_, A_, cov, minnumpoints_, nanraises) ==
    LET finite == vvels_finite(vlos_)
        fv == Mask(vlos_, finite)
        fd == Mask(dvlos_, finite)
        fA == Mask(A_, finite)
        n == Len(fv)
    IN vvels_try(SeqOf([i \in 1..n |-> R(fv[i])], n),
                 SeqOf([i \in 1..n |-> R(fd[i])], n),
                 SeqOf([i \in 1..n |-> SeqOf([k \in 1..3 |-> R(fA[i][k])], 3)], n),
                 SeqOf([k \in 1..3 |-> R(cov[k])], 3), nanraises)

\* vvels(vlos, dvlos, A, cov, minnumpoints): [V, SigV]; caught records
\* whether the except branch ran
vvels(vlos_, dvlos_, A_, cov, minnumpoints_, nanraises) ==
    LET finite == vvels_finite(vlos_)
        fv == Mask(vlos_, finite)
        fd == Mask(dvlos_, finite)
        fA == Mask(A_, finite)
        n == Len(fv)
        r == vvels_try(SeqOf([i \in 1..n |-> R(fv[i])], n),
                       SeqOf([i \in 1..n |-> R(fd[i])], n),
                       SeqOf([i \in 1..n |-> SeqOf([k \in 1..3 |-> R(fA[i][k])], 3)], n),
                       SeqOf([k \in 1..3 |-> R(cov[k])], 3), nanraises)
    IN IF CountTrue(finite) < minnumpoints_
       THEN [V |-> NaN3, SigV |-> NaN33, caught |-> r.caught]
       ELSE r

----------------------------------------------------------------------------
(* ResolveVectors.__init__ and read_data.                                  *)

\* Python truth value of a configured number: None and 0 are false
Truthy(x) == x # None /\ x # 0

Unset == <<>>

\* the state after __init__ with the given file contents and config values
Configured(file, c_chirp, c_neMin, c_inttime, c_covar, c_ppp, c_minalt, c_maxalt, c_minnumpoints, c_upB) ==
    /\ datafile = file
    /\ chirp = c_chirp
    /\ neMin = c_neMin
    /\ integration_time = c_inttime
    /\ covar = c_covar
    /\ ppp = c_ppp
    /\ minalt = c_minalt
    /\ maxalt = c_maxalt
    /\ minnumpoints = c_minnumpoints
    /\ upB_beamcode = c_upB
    /\ upB = Unset
    /\ read_vlos = Unset /\ read_dvlos = Unset
    /\ filt_vlos = Unset /\ filt_dvlos = Unset
    /\ time = Unset /\ alt = Unset /\ lat = Unset /\ lon = Unset
    /\ ke = Unset /\ kn = Unset /\ kz = Unset
    /\ vlos = Unset /\ dvlos = Unset /\ ne = Unset
    /\ mlat = Unset /\ mlon = Unset /\ A = Unset /\ D = Unset
    /\ bin_mlat = Unset /\ bin_mlon = Unset /\ bin_idx = Unset
    /\ int_period = Unset /\ int_idx = Unset
    /\ Velocity = Unset /\ VelocityCovariance = Unset
    /\ ElectricField = Unset /\ ElectricFieldCovariance = Unset
    /\ pc = "read_data"
    /\ raised = "none"

\* the same with UPB_BEAMCODE left out of config.ini
Constructed(file, c_chirp, c_neMin, c_inttime, c_covar, c_ppp, c_minalt, c_maxalt, c_minnumpoints) ==
    Configured(file, c_chirp, c_neMin, c_inttime, c_covar, c_ppp, c_minalt, c_maxalt, c_minnumpoints, None)

\* the gates (flattened (beam, range) positions) of the beams whose code is
\* upB_beamcode: np.argwhere(self.BeamCodes==self.upB_beamcode).flatten()
\* indexing the beam axis
upB_gates(file, code) ==
    LET upB_idx == ArgWhere(SeqOf([b \in 1..Len(file.BeamCodes) |->
                                      file.BeamCodes[b] = code], Len(file.BeamCodes)))
    IN Flatten(SeqOf([k \in 1..Len(upB_idx) |->
           SeqOf([r \in 1..file.NRanges |-> (upB_idx[k] - 1) * file.NRanges + r],
                 file.NRanges)], Len(upB_idx)))

\* arr[upB_gates]
Take(arr, gates) == SeqOf([k \in 1..Len(gates) |-> arr[gates[k]]], Len(gates))

\* self.upB = {'alt':upB_alt, 'vlos':upB_vlos, 'dvlos':upB_dvlos}
read_upB(file, code) ==
    LET gates == upB_gates(file, code)
        N == Len(file.UnixTime)
    IN [alt |-> Take(file.Altitude, gates),
        vlos |-> SeqOf([t \in 1..N |-> Take(file.Fits[t], gates)], N),
        dvlos |-> SeqOf([t \in 1..N |-> Take(file.Errors[t], gates)], N)]

\* read_data: the file's arrays, the (beam, range) axes flattened to one gate
\* axis.  The up-B arrays are read only when UPB_BEAMCODE is configured.
ReadData ==
    /\ pc = "read_data"
    /\ raised = "none"
    /\ time' = datafile.UnixTime
    /\ alt' = datafile.Altitude
    /\ lat' = datafile.Latitude
    /\ lon' = datafile.Longitude
    /\ ke' = datafile.ke
    /\ kn' = datafile.kn
    /\ kz' = datafile.kz
    /\ vlos' = datafile.Fits
    /\ dvlos' = datafile.Errors
    /\ ne' = datafile.Ne
    /\ upB' = IF Truthy(upB_beamcode) THEN read_upB(datafile, upB_beamcode) ELSE upB
    /\ read_vlos' = datafile.Fits
    /\ read_dvlos' = datafile.Errors
    /\ pc' = "filter_data"
    /\ UNCHANGED <<datafile, config, filt_vlos, filt_dvlos, apexout, bins, periods,
                   results, raised>>

----------------------------------------------------------------------------
(* filter_data.                                                            *)

\* self.vlos + self.chirp
filter_chirp(v, c) ==
    SeqOf([t \in 1..Len(v) |-> SeqOf([g \in 1..Len(v[t]) |-> FAdd(v[t][g], c)],
                                     Len(v[t]))], Len(v))

\* arr[I] = np.nan for I a set of (record, gate) pairs
NullEntries(arr, I_) ==
    SeqOf([t \in 1..Len(arr) |-> SeqOf([g \in 1..Len(arr[t]) |->
        IF <<t, g>> \in I_ THEN NaN ELSE arr[t][g]], Len(arr[t]))], Len(arr))

\* arr[(idx,)] = np.nan for idx a set of first-axis indices: whole rows
NullRows(arr, idx) ==
    SeqOf([t \in 1..Len(arr) |-> SeqOf([g \in 1..Len(arr[t]) |->
        IF t \in idx THEN NaN ELSE arr[t][g]], Len(arr[t]))], Len(arr))

\* a density test with the comparison turned round
filter_density_I_reversed(ne_, neMin_) ==
    {<<t, g>> \in (1..Len(ne_)) \X (1..(IF ne_ = <<>> THEN 0 ELSE Len(ne_[1]))) :
        FGt(ne_[t][g], neMin_)}

\* np.where(self.ne < self.neMin): pairs of the 2-D array ne
filter_density_I(ne_, neMin_) ==
    {<<t, g>> \in (1..Len(ne_)) \X (1..(IF ne_ = <<>> THEN 0 ELSE Len(ne_[1]))) :
        FLt(ne_[t][g], neMin_)}

\* np.where((self.alt < self.minalt*1000.) | (self.alt > self.maxalt*1000.)):
\* a 1-tuple holding the indices of the 1-D array alt
filter_alt_I(alt_, minalt_, maxalt_) ==
    {g \in 1..Len(alt_) : FLt(alt_[g], minalt_ * 1000) \/ FGt(alt_[g], maxalt_ * 1000)}

\* fracerrs > ppp[1] for fracerrs = |dv| / (|v| + ppp[0]) as IEEE computes it
filter_fracerr_gt(dv, v, p0, p1) ==
    IF dv = NaN \/ v = NaN THEN FALSE
    ELSE LET num == FAbs(dv)
             den == FAbs(v) + p0
         IN IF den > 0 THEN num > p1 * den
            ELSE IF den < 0 THEN num < p1 * den
            ELSE num > 0             \* x/0 = inf for x > 0, 0/0 = NaN

\* an error test that discards on either condition
filter_err_I_either(v, dv, ppp_) ==
    {<<t, g>> \in (1..Len(v)) \X (1..(IF v = <<>> THEN 0 ELSE Len(v[1]))) :
        \/ filter_fracerr_gt(dv[t][g], v[t][g], ppp_[1], ppp_[2])
        \/ FGt(FAbs(dv[t][g]), ppp_[4])}

\* np.where((fracerrs > self.ppp[1]) & (abserrs > self.ppp[3]))
filter_err_I(v, dv, ppp_) ==
    {<<t, g>> \in (1..Len(v)) \X (1..(IF v = <<>> THEN 0 ELSE Len(v[1]))) :
        /\ filter_fracerr_gt(dv[t][g], v[t][g], ppp_[1], ppp_[2])
        /\ FGt(FAbs(dv[t][g]), ppp_[4])}

\* vlos[I] for the 1-tuple I indexes the first axis of the 2-D array: an
\* index beyond the number of records raises IndexError at the assignment
filter_alt_raises(arr, idx) == \E g \in idx : g > Len(arr)

\* filter_data as a whole: the arrays it leaves in self.vlos and self.dvlos,
\* and the exception it raised
filter_data(vlos_, dvlos_, ne_, alt_, chirp_, neMin_, minalt_, maxalt_, ppp_) ==
    LET v1 == filter_chirp(vlos_, chirp_)
        I1 == filter_density_I(ne_, neMin_)
        v2 == NullEntries(v1, I1)
        d2 == NullEntries(dvlos_, I1)
        I2 == filter_alt_I(alt_, minalt_, maxalt_)
        v3 == NullRows(v2, I2)
        d3 == NullRows(d2, I2)
        I3 == filter_err_I(v3, d3, ppp_)
    IN IF filter_alt_raises(v2, I2)
       THEN [vlos |-> v2, dvlos |-> d2, raised |-> "IndexError"]
       ELSE [vlos |-> NullEntries(v3, I3), dvlos |-> NullEntries(d3, I3),
             raised |-> "none"]

FilterData ==
    /\ pc = "filter_data"
    /\ raised = "none"
    /\ LET r == filter_data(vlos, dvlos, ne, alt, chirp, neMin, minalt, maxalt, ppp)
       IN /\ vlos' = r.vlos
          /\ dvlos' = r.dvlos
          \* self.vlos + self.chirp is a new array; self.dvlos[I] = np.nan
          \* writes into the array read_data built
          /\ read_dvlos' = r.dvlos
          /\ filt_vlos' = IF r.raised = "none" THEN r.vlos ELSE filt_vlos
          /\ filt_dvlos' = IF r.raised = "none" THEN r.dvlos ELSE filt_dvlos
          /\ raised' = r.raised
          /\ pc' = IF r.raised = "none" THEN "transform" ELSE pc
    /\ UNCHANGED <<datafile, config, time, alt, lat, lon, ke, kn, kz, ne, upB,
                   read_vlos, apexout, bins, periods, results>>

----------------------------------------------------------------------------
(* transform.                                                              *)

FMul(x, y) == IF x = NaN \/ y = NaN THEN NaN ELSE x * y
FSub(x, y) == IF x = NaN \/ y = NaN THEN NaN ELSE x - y

\* the geomagnetic model (apexpy) is an external collaborator.  It is stood
\* in for by fixed functions of the position: geo2apex of one point
\* (millidegrees, millidegrees, km) and the basis d1, d2, d3 at one point.
Apex_geo2apex(glat, glon, galt) == <<glat + galt, glon - galt>>
Apex_basevectors(glat, glon, galt) == <<<<1, 0, 0>>, <<0, 1, 0>>, <<0, 0, 1>>>>

NaNvec == <<NaN, NaN, NaN>>

\* [r-i for i,r in enumerate(np.argwhere(np.isnan(self.alt)).flatten())]:
\* Python (0-based) positions in the stripped array
replace_nans(alt_) ==
    LET r == ArgWhere(SeqOf([g \in 1..Len(alt_) |-> IsNaN(alt_[g])], Len(alt_)))
    IN SeqOf([i \in 1..Len(r) |-> (r[i] - 1) - (i - 1)], Len(r))

\* arr[np.isfinite(arr)]
StripNonFinite(arr) == Mask(arr, SeqOf([g \in 1..Len(arr) |-> IsFinite(arr[g])], Len(arr)))

\* numpy broadcasting of three 1-D arrays: the common length, or -1 when the
\* lengths cannot be broadcast together (ValueError)
BroadcastLen(a, b, c) ==
    LET big == {n \in {a, b, c} : n # 1}
    IN IF big = {} THEN 1
       ELSE IF Cardinality(big) = 1 THEN CHOOSE n \in big : TRUE
       ELSE -1

\* element g of a 1-D array broadcast to a longer length
Bc(arr, g) == IF Len(arr) = 1 THEN arr[1] ELSE arr[g]

\* np.insert(arr, idx, val): val before each (0-based) position of idx, from
\* position k on
RECURSIVE InsertFrom(_, _, _, _)
InsertFrom(arr, idx, val, k) ==
    LET here == SeqOf([i \in 1..Cardinality({i \in 1..Len(idx) : idx[i] = k}) |-> val],
                      Cardinality({i \in 1..Len(idx) : idx[i] = k}))
    IN IF k >= Len(arr) THEN here
       ELSE here \o <<arr[k + 1]>> \o InsertFrom(arr, idx, val, k + 1)
np_insert(arr, idx, val) == InsertFrom(arr, idx, val, 0)
\* np.insert raises IndexError for a position beyond the end of arr
np_insert_raises(arr, idx) == \E i \in 1..Len(idx) : idx[i] > Len(arr)

Dot3(u, v) == FAdd(FAdd(FMul(u[1], v[1]), FMul(u[2], v[2])), FMul(u[3], v[3]))
Cross3(u, v) == <<FSub(FMul(u[2], v[3]), FMul(u[3], v[2])),
                  FSub(FMul(u[3], v[1]), FMul(u[1], v[3])),
                  FSub(FMul(u[1], v[2]), FMul(u[2], v[1]))>>

\* transform as a whole: what it assigns to self.mlat, self.mlon, self.A and
\* self.D, and the exception it raised
transform(lat_, lon_, alt_, ke_, kn_, kz_) ==
    LET rn == replace_nans(alt_)
        glat == StripNonFinite(lat_)
        glon == StripNonFinite(lon_)
        finalt == StripNonFinite(alt_)
        galt == SeqOf([g \in 1..Len(finalt) |-> finalt[g] \div 1000], Len(finalt))
        L == BroadcastLen(Len(glat), Len(glon), Len(galt))
        pt(g) == <<Bc(glat, g), Bc(glon, g), Bc(galt, g)>>
        mm == SeqOf([g \in 1..L |-> Apex_geo2apex(pt(g)[1], pt(g)[2], pt(g)[3])], L)
        bv == SeqOf([g \in 1..L |-> Apex_basevectors(pt(g)[1], pt(g)[2], pt(g)[3])], L)
        mlat_ == np_insert(SeqOf([g \in 1..L |-> mm[g][1]], L), rn, NaN)
        mlon_ == np_insert(SeqOf([g \in 1..L |-> mm[g][2]], L), rn, NaN)
        d1 == np_insert(SeqOf([g \in 1..L |-> bv[g][1]], L), rn, NaNvec)
        d2 == np_insert(SeqOf([g \in 1..L |-> bv[g][2]], L), rn, NaNvec)
        d3 == np_insert(SeqOf([g \in 1..L |-> bv[g][3]], L), rn, NaNvec)
        M == Len(ke_)
        Md == Len(d1)
        \* np.einsum('ij,ijk->ik', kvec, d): the gate axis of length 1 broadcasts
        Ma == IF Md = M \/ Md = 1 THEN M ELSE IF M = 1 THEN Md ELSE -1
        kvec(g) == <<Bc(ke_, g), Bc(kn_, g), Bc(kz_, g)>>
        A_ == SeqOf([g \in 1..Ma |-> <<Dot3(kvec(g), Bc(d1, g)), Dot3(kvec(g), Bc(d2, g)),
                                       Dot3(kvec(g), Bc(d3, g))>>], Ma)
        D_ == SeqOf([g \in 1..Md |->
                 LET c == Cross3(d1[g], d2[g])
                 IN Sqrt(FAdd(FAdd(FMul(c[1], c[1]), FMul(c[2], c[2])), FMul(c[3], c[3])))],
                    Md)
    IN IF L = -1
       THEN [mlat |-> Unset, mlon |-> Unset, A |-> Unset, D |-> Unset,
             raised |-> "ValueError"]
       ELSE IF np_insert_raises(SeqOf([g \in 1..L |-> 0], L), rn)
       THEN [mlat |-> Unset, mlon |-> Unset, A |-> Unset, D |-> Unset,
             raised |-> "IndexError"]
       ELSE IF Ma = -1
       THEN [mlat |-> mlat_, mlon |-> mlon_, A |-> Unset, D |-> Unset,
             raised |-> "ValueError"]
       ELSE [mlat |-> mlat_, mlon |-> mlon_, A |-> A_, D |-> D_, raised |-> "none"]

Transform ==
    /\ pc = "transform"
    /\ raised = "none"
    /\ LET r == transform(lat, lon, alt, ke, kn, kz)
       IN /\ mlat' = r.mlat
          /\ mlon' = r.mlon
          /\ A' = r.A
          /\ D' = r.D
          /\ raised' = r.raised
          /\ pc' = IF r.raised = "none" THEN "ion_outflow_correction" ELSE pc
    /\ UNCHANGED <<datafile, config, data, bins, periods, results>>

----------------------------------------------------------------------------
(* lin_interp and ion_outflow_correction.  The interpolated values are     *)
(* exact rationals; the files drawn keep every corrected velocity and      *)
(* error a whole number, which FromR and RSqrt rely on.                    *)

\* np.sqrt of a rational that is a square
RSqrt(q) ==
    IF RIsNaN(q) THEN RNaN
    ELSE <<CHOOSE r \in 0..q[1] : r * r = q[1], CHOOSE r \in 0..q[2] : r * r = q[2]>>

\* the float of a whole rational
FromR(q) == IF RIsNaN(q) THEN NaN ELSE CHOOSE n \in {q[1]} : q[2] = 1

\* np.nanmin, np.nanmax of an array that is not empty: NaN when all is NaN
np_nanmin(arr) ==
    LET fin == StripNonFinite(arr)
    IN IF fin = <<>> THEN NaN
       ELSE CHOOSE m \in {fin[k] : k \in 1..Len(fin)} : \A k \in 1..Len(fin) : m <= fin[k]
np_nanmax(arr) ==
    LET fin == StripNonFinite(arr)
    IN IF fin = <<>> THEN NaN
       ELSE CHOOSE m \in {fin[k] : k \in 1..Len(fin)} : \A k \in 1..Len(fin) : m >= fin[k]

\* (xi>=np.nanmin(xp)) & (xi<np.nanmax(xp))
lin_interp_inrange(xi, xp) == FGe(xi, np_nanmin(xp)) /\ FLt(xi, np_nanmax(xp))

\* np.argwhere((xi>=xp[:-1]) & (xi<xp[1:])).flatten(), as Python indices
lin_interp_where(xi, xp) ==
    LET hit == ArgWhere(SeqOf([j \in 1..(Len(xp) - 1) |->
                   FGe(xi, xp[j]) /\ FLt(xi, xp[j + 1])], Len(xp) - 1))
    IN SeqOf([k \in 1..Len(hit) |-> hit[k] - 1], Len(hit))

\* the index array i: the first bracketing index, -1 out of range
lin_interp_i(x, xp) ==
    SeqOf([g \in 1..Len(x) |->
        IF lin_interp_inrange(x[g], xp) THEN lin_interp_where(x[g], xp)[1] ELSE -1],
          Len(x))

\* arr[i] for a Python index i, negative indices counting from the end
PyAt(arr, i) == IF i < 0 THEN arr[Len(arr) + i + 1] ELSE arr[i + 1]

\* the exception lin_interp raises: np.nanmin of an empty xp (ValueError),
\* [0] of an empty argwhere result (IndexError), indexing with the float
\* array that np.array([]) is (IndexError)
lin_interp_raised(x, xp) ==
    IF x = <<>> THEN "IndexError"
    ELSE IF xp = <<>> THEN "ValueError"
    ELSE IF \E g \in 1..Len(x) :
               lin_interp_inrange(x[g], xp) /\ lin_interp_where(x[g], xp) = <<>>
    THEN "IndexError"
    ELSE "none"

\* lin_interp(x, xp, fp, dfp): [f, df] as rationals, and the exception raised
lin_interp(x, xp, fp, dfp) ==
    LET i == lin_interp_i(x, xp)
        X(g) == RDiv(RSub(R(x[g]), R(PyAt(xp, i[g]))),
                     RSub(R(PyAt(xp, i[g] + 1)), R(PyAt(xp, i[g]))))
        f(g) == RAdd(R(PyAt(fp, i[g])),
                     RMul(RSub(R(PyAt(fp, i[g] + 1)), R(PyAt(fp, i[g]))), X(g)))
        sq(q) == RMul(q, q)
        df(g) == RSqrt(RAdd(RMul(sq(RSub(R(1), X(g))), sq(R(PyAt(dfp, i[g])))),
                            RMul(sq(X(g)), sq(R(PyAt(dfp, i[g] + 1))))))
    IN IF lin_interp_raised(x, xp) # "none"
       THEN [f |-> <<>>, df |-> <<>>, raised |-> lin_interp_raised(x, xp)]
       ELSE [f |-> SeqOf([g \in 1..Len(x) |-> IF i[g] < 0 THEN RNaN ELSE f(g)], Len(x)),
             df |-> SeqOf([g \in 1..Len(x) |-> IF i[g] < 0 THEN RNaN ELSE df(g)], Len(x)),
             raised |-> "none"]

\* one record of the loop of ion_outflow_correction: the corrected rows
\* self.vlos[t] and self.dvlos[t]
outflow_row(v, dv, D_, A_, r) ==
    LET M == Len(v)
        k(g) == R(FMul(Bc(D_, g), Bc(A_, g)[3]))
    IN [vlos |-> SeqOf([g \in 1..M |->
                    FromR(RAdd(R(v[g]), RMul(k(g), r.f[g])))], M),
        dvlos |-> SeqOf([g \in 1..M |->
                    FromR(RSqrt(RAdd(RMul(R(dv[g]), R(dv[g])),
                                     RMul(RMul(k(g), k(g)), RMul(r.df[g], r.df[g])))))], M)]

\* the exception the loop raises in its first pass: the one of lin_interp,
\* or ValueError for operands that do not broadcast to a row of self.vlos
outflow_raised(vlos_, alt_, D_, A_, upB_) ==
    IF vlos_ = <<>> THEN "none"
    ELSE IF lin_interp_raised(alt_, upB_.alt) # "none"
    THEN lin_interp_raised(alt_, upB_.alt)
    ELSE IF \E n \in {Len(D_), Len(A_), Len(alt_)} : n \notin {1, Len(vlos_[1])}
    THEN "ValueError"
    ELSE "none"

\* ion_outflow_correction with an up-B beam configured: the contents of
\* self.vlos and self.dvlos afterwards, and the exception raised
ion_outflow_correction(vlos_, dvlos_, alt_, D_, A_, upB_) ==
    LET N == Len(vlos_)
        row(t) == outflow_row(vlos_[t], dvlos_[t], D_, A_,
                              lin_interp(alt_, upB_.alt, upB_.vlos[t], upB_.dvlos[t]))
    IN IF outflow_raised(vlos_, alt_, D_, A_, upB_) # "none"
       THEN [vlos |-> vlos_, dvlos |-> dvlos_,
             raised |-> outflow_raised(vlos_, alt_, D_, A_, upB_)]
       ELSE [vlos |-> SeqOf([t \in 1..N |-> row(t).vlos], N),
             dvlos |-> SeqOf([t \in 1..N |-> row(t).dvlos], N),
             raised |-> "none"]

\* nothing is done unless an up-B beam is configured; the rows are assigned
\* through an index, into the arrays that filter_data left
IonOutflowCorrection ==
    /\ pc = "ion_outflow_correction"
    /\ raised = "none"
    /\ \E r \in {IF Truthy(upB_beamcode)
                 THEN ion_outflow_correction(vlos, dvlos, alt, D, A, upB)
                 ELSE [vlos |-> vlos, dvlos |-> dvlos, raised |-> "none"]} :
          /\ vlos' = r.vlos
          /\ dvlos' = r.dvlos
          /\ filt_vlos' = IF Truthy(upB_beamcode) THEN r.vlos ELSE filt_vlos
          /\ filt_dvlos' = IF Truthy(upB_beamcode) THEN r.dvlos ELSE filt_dvlos
          /\ read_dvlos' = IF Truthy(upB_beamcode) THEN r.dvlos ELSE read_dvlos
          /\ raised' = r.raised
          /\ pc' = IF r.raised = "none" THEN "bin_data" ELSE pc
    /\ UNCHANGED <<datafile, config, time, alt, lat, lon, ke, kn, kz, ne, upB,
                   read_vlos, apexout, bins, periods, results>>

----------------------------------------------------------------------------
(* bin_data.                                                               *)

\* np.arange(64.0,68.0,0.25) in millidegrees
BinStart == 64000
BinStop == 68000
BinStep == 250
bin_edge_mlat ==
    SeqOf([i \in 1..((BinStop - BinStart) \div BinStep) |-> BinStart + (i - 1) * BinStep],
          (BinStop - BinStart) \div BinStep)
NumBins == Len(bin_edge_mlat) - 1

\* np.nanmean: the mean of the finite elements, NaN when there is none
nanmean(arr) ==
    LET fin == StripNonFinite(arr)
    IN IF fin = <<>> THEN RNaN ELSE RNorm(SumSeq(fin), Len(fin))

\* a bin test that also admits the upper edge
in_bin_closed(m, i) ==
    FGe(m, bin_edge_mlat[i]) /\ (FLt(m, bin_edge_mlat[i + 1]) \/ m = bin_edge_mlat[i + 1])

\* (self.mlat>=bin_edge_mlat[i]) & (self.mlat<bin_edge_mlat[i+1]) for one gate
in_bin(m, i) == FGe(m, bin_edge_mlat[i]) /\ FLt(m, bin_edge_mlat[i + 1])

\* self.bin_idx: for each bin the gate indices inside it, ascending
bin_data_idx(mlat_) ==
    SeqOf([i \in 1..NumBins |->
        ArgWhere(SeqOf([g \in 1..Len(mlat_) |-> in_bin(mlat_[g], i)], Len(mlat_)))],
          NumBins)

BinData ==
    /\ pc = "bin_data"
    /\ raised = "none"
    /\ bin_mlat' = SeqOf([i \in 1..NumBins |->
                        RNorm(bin_edge_mlat[i] + bin_edge_mlat[i + 1], 2)], NumBins)
    /\ bin_mlon' = SeqOf([i \in 1..NumBins |-> nanmean(mlon)], NumBins)
    /\ bin_idx' = bin_data_idx(mlat)
    /\ pc' = "get_integration_periods"
    /\ UNCHANGED <<datafile, config, data, apexout, periods, results, raised>>

----------------------------------------------------------------------------
(* get_integration_periods.                                                *)

\* int_loop with the end-of-input test left out: the last window is closed
\* only when it reaches the target
RECURSIVE int_loop_no_final(_, _, _, _, _, _, _)
int_loop_no_final(time_, T, i, idx, start_time, ip, ii) ==
    IF i > Len(time_) THEN [int_period |-> ip, int_idx |-> ii]
    ELSE LET st == IF start_time = None THEN time_[i][1] ELSE start_time
             idx2 == Append(idx, i)
         IN IF time_[i][2] - st >= T
            THEN int_loop_no_final(time_, T, i + 1, <<>>, None,
                                   Append(ip, <<st, time_[i][2]>>), Append(ii, idx2))
            ELSE int_loop_no_final(time_, T, i + 1, idx2, st, ip, ii)

\* int_loop closing a window only once the target is exceeded
RECURSIVE int_loop_strict(_, _, _, _, _, _, _)
int_loop_strict(time_, T, i, idx, start_time, ip, ii) ==
    IF i > Len(time_) THEN [int_period |-> ip, int_idx |-> ii]
    ELSE LET st == IF start_time = None THEN time_[i][1] ELSE start_time
             idx2 == Append(idx, i)
         IN IF time_[i][2] - st > T \/ i = Len(time_)
            THEN int_loop_strict(time_, T, i + 1, <<>>, None,
                                 Append(ip, <<st, time_[i][2]>>), Append(ii, idx2))
            ELSE int_loop_strict(time_, T, i + 1, idx2, st, ip, ii)

\* the loop over enumerate(self.time) from record i on; idx and start_time
\* are the loop's locals, ip and ii the lists built so far
RECURSIVE int_loop(_, _, _, _, _, _, _)
int_loop(time_, T, i, idx, start_time, ip, ii) ==
    IF i > Len(time_) THEN [int_period |-> ip, int_idx |-> ii]
    ELSE LET temp_start_time == time_[i][1]
             temp_end_time == time_[i][2]
             st == IF start_time = None THEN temp_start_time ELSE start_time
             time_diff == temp_end_time - st
             idx2 == Append(idx, i)
         IN IF time_diff >= T \/ i = Len(time_)
            THEN int_loop(time_, T, i + 1, <<>>, None,
                          Append(ip, <<st, temp_end_time>>), Append(ii, idx2))
            ELSE int_loop(time_, T, i + 1, idx2, st, ip, ii)

\* without an integration time the periods are the records themselves and
\* int_idx is range(len(time)): plain record indices, not index arrays
get_integration_periods(time_, T) ==
    IF ~Truthy(T)
    THEN [int_period |-> time_, int_idx |-> SeqOf([i \in 1..Len(time_) |-> i], Len(time_))]
    ELSE int_loop(time_, T, 1, <<>>, None, <<>>, <<>>)

GetIntegrationPeriods ==
    /\ pc = "get_integration_periods"
    /\ raised = "none"
    /\ LET r == get_integration_periods(time, integration_time)
       IN /\ int_period' = r.int_period
          /\ int_idx' = r.int_idx
    /\ pc' = "compute_vectors"
    /\ UNCHANGED <<datafile, config, data, apexout, bins, results, raised>>

----------------------------------------------------------------------------
(* compute_vectors.                                                        *)


\* the record indices tidx selects: an index array, or (no integration time)
\* one plain index, which numpy broadcasts against the gate column
tidx_records(tidx, T) == IF Truthy(T) THEN tidx ELSE <<tidx>>

\* arr[tidx,bidx[:,np.newaxis]].flatten(): gate-major, records within a gate
cell_los(arr, tidx, bidx, T) ==
    LET tl == tidx_records(tidx, T)
    IN Flatten(SeqOf([g \in 1..Len(bidx) |->
                   SeqOf([t \in 1..Len(tl) |-> arr[tl[t]][bidx[g]]], Len(tl))], Len(bidx)))

\* the duplication np.tile(self.A[bidx], (len(tidx),1)) would give:
\* record-major, gates within a record
cell_A_tiled(A_, tidx, bidx, T) ==
    IF Truthy(T)
    THEN Flatten(SeqOf([t \in 1..Len(tidx) |->
                    SeqOf([g \in 1..Len(bidx) |-> A_[bidx[g]]], Len(bidx))], Len(tidx)))
    ELSE SeqOf([g \in 1..Len(bidx) |-> A_[bidx[g]]], Len(bidx))

\* np.repeat(self.A[bidx], len(tidx), axis=0) with an integration time,
\* self.A[bidx] without
cell_A(A_, tidx, bidx, T) ==
    IF Truthy(T)
    THEN Flatten(SeqOf([g \in 1..Len(bidx) |->
                    SeqOf([t \in 1..Len(tidx) |-> A_[bidx[g]]], Len(tidx))], Len(bidx)))
    ELSE SeqOf([g \in 1..Len(bidx) |-> A_[bidx[g]]], Len(bidx))

\* a loop over spatial bins that passes over the bins without gates
compute_period_skip_empty(tidx, nanraises) ==
    LET full == SelectSeq(bin_idx, LAMBDA bidx : bidx # <<>>)
    IN SeqOf([b \in 1..Len(full) |->
           vvels(cell_los(vlos, tidx, full[b], integration_time),
                 cell_los(dvlos, tidx, full[b], integration_time),
                 cell_A(A, tidx, full[b], integration_time),
                 covar, minnumpoints, nanraises)], Len(full))

\* one pass of the loop over spatial bins: the vvels result of every bin.
\* Every bin without gates hands vvels the same empty arrays; that result is
\* worked out once (nogates) and stored for each such bin.
compute_period(tidx, nanraises) ==
    CHOOSE row \in
        {SeqOf([b \in 1..Len(bin_idx) |->
             IF bin_idx[b] = <<>> THEN nogates
             ELSE vvels(cell_los(vlos, tidx, bin_idx[b], integration_time),
                        cell_los(dvlos, tidx, bin_idx[b], integration_time),
                        cell_A(A, tidx, bin_idx[b], integration_time),
                        covar, minnumpoints, nanraises)], Len(bin_idx)) :
         nogates \in {vvels(<<>>, <<>>, <<>>, covar, minnumpoints, nanraises)}} : TRUE

\* np.linalg.inv has two outcomes only on a matrix that holds NaN
nan_outcomes ==
    IF \/ \E t \in 1..Len(dvlos) : \E g \in 1..Len(dvlos[t]) : IsNaN(dvlos[t][g])
       \/ \E g \in 1..Len(A) : \E k \in 1..3 : IsNaN(A[g][k])
       \/ \E k \in 1..3 : IsNaN(covar[k])
    THEN BOOLEAN ELSE {FALSE}

\* one pass of the loop over integration periods; Velocity and
\* VelocityCovariance are the lists being built
ComputeVectorsPeriod ==
    /\ pc = "compute_vectors"
    /\ raised = "none"
    /\ Len(Velocity) < Len(int_idx)
    /\ \E nanraises \in nan_outcomes :
         \E cells \in {compute_period(int_idx[Len(Velocity) + 1], nanraises)} :
            /\ Velocity' = Append(Velocity,
                                  SeqOf([b \in 1..Len(cells) |-> cells[b].V], Len(cells)))
            /\ VelocityCovariance' = Append(VelocityCovariance,
                                  SeqOf([b \in 1..Len(cells) |-> cells[b].SigV], Len(cells)))
    /\ UNCHANGED <<datafile, config, data, apexout, bins, periods, ElectricField,
                   ElectricFieldCovariance, pc, raised>>

\* Be3 of Apex.bvectors_apex at one bin location, 200 km: a stand-in for the
\* external geomagnetic model
Apex_Be3(bmlat, bmlon) ==
    IF RIsNaN(bmlon) THEN RNaN ELSE <<(bmlat[1] \div bmlat[2]) \div 1000 - 60, 1>>

RotUnit == <<<<0, -1, 0>>, <<1, 0, 0>>, <<0, 0, 0>>>>

\* R = np.einsum('i,jk->ijk',Be3,[[0,-1,0],[1,0,0],[0,0,0]]) for bin i
rotation(i) ==
    SeqOf([j \in 1..3 |-> SeqOf([k \in 1..3 |->
        RMul(Apex_Be3(bin_mlat[i], bin_mlon[i]), R(RotUnit[j][k]))], 3)], 3)

\* the product with the transposed rotation, 'ikj,...ik->...ij'
electric_field_transposed(Rm, V) ==
    SeqOf([j \in 1..3 |-> RSumTo([k \in 1..3 |-> RMul(Rm[k][j], V[k])], 3)], 3)

\* np.einsum('ijk,...ik->...ij',R,self.Velocity) for one period and bin
electric_field(Rm, V) ==
    SeqOf([j \in 1..3 |-> RSumTo([k \in 1..3 |-> RMul(Rm[j][k], V[k])], 3)], 3)

\* np.einsum('ijk,...ikl,iml->...ijm',R,self.VelocityCovariance,R)
electric_field_covariance(Rm, SigV) ==
    SeqOf([j \in 1..3 |-> SeqOf([m \in 1..3 |->
        RSumTo([k \in 1..3 |-> RSumTo([l \in 1..3 |->
            RMul(RMul(Rm[j][k], SigV[k][l]), Rm[m][l])], 3)], 3)], 3)], 3)

\* after the loops: the electric field of every period and bin
ComputeVectorsFinish ==
    /\ pc = "compute_vectors"
    /\ raised = "none"
    /\ Len(Velocity) = Len(int_idx)
    /\ ElectricField' =
         SeqOf([p \in 1..Len(Velocity) |-> SeqOf([i \in 1..Len(Velocity[p]) |->
             electric_field(rotation(i), Velocity[p][i])], Len(Velocity[p]))],
               Len(Velocity))
    /\ ElectricFieldCovariance' =
         SeqOf([p \in 1..Len(Velocity) |-> SeqOf([i \in 1..Len(Velocity[p]) |->
             electric_field_covariance(rotation(i), VelocityCovariance[p][i])],
                   Len(Velocity[p]))], Len(Velocity))
    /\ pc' = "done"
    /\ UNCHANGED <<datafile, config, data, apexout, bins, periods, Velocity,
                   VelocityCovariance, raised>>

----------------------------------------------------------------------------
(* The run: read_data, filter_data, transform, ion_outflow_correction,     *)
(* bin_data, get_integration_periods, compute_vectors, in that order.      *)

Next ==
    \/ ReadData
    \/ FilterData
    \/ Transform
    \/ IonOutflowCorrection
    \/ BinData
    \/ GetIntegrationPeriods
    \/ ComputeVectorsPeriod
    \/ ComputeVectorsFinish

----------------------------------------------------------------------------
(* Inputs.  Each specification runs the whole pipeline and differs in the  *)
(* fit files and configurations it draws.                                  *)

MaxRecords == 3
MaxGates == 3

Axis(g) == [k \in 1..3 |-> IF k = ((g - 1) % 3) + 1 THEN 1 ELSE 0]

\* a fit file from per-record and per-gate functions
File(N, M, tm, al, la, lo, kv, fit, err, den) ==
    [UnixTime |-> SeqOf(tm, N),
     Altitude |-> SeqOf(al, M),
     Latitude |-> SeqOf(la, M),
     Longitude |-> SeqOf(lo, M),
     ke |-> SeqOf([g \in 1..M |-> kv[g][1]], M),
     kn |-> SeqOf([g \in 1..M |-> kv[g][2]], M),
     kz |-> SeqOf([g \in 1..M |-> kv[g][3]], M),
     Fits |-> SeqOf([t \in 1..N |-> SeqOf(fit[t], M)], N),
     Errors |-> SeqOf([t \in 1..N |-> SeqOf(err[t], M)], N),
     Ne |-> SeqOf([t \in 1..N |-> SeqOf(den[t], M)], N)]

\* a per-gate or per-record-and-gate array holding one value everywhere
Const1(M, v) == [g \in 1..M |-> v]
Const2(N, M, v) == [t \in 1..N |-> [g \in 1..M |-> v]]

\* thresholds that let every drawn measurement through
PassPPP == <<1, 100, 0, 100>>

\* --- files and integration times for get_integration_periods
Durations == {1, 2}
Gaps == {0, 1}
IntTimes == {None, 0, 1, 2, 3, 4}

\* record i starts after the previous record's end plus a gap
RECURSIVE TimesOf(_, _)
TimesOf(dg, t0) ==
    IF dg = <<>> THEN <<>>
    ELSE <<<<t0 + Head(dg)[2], t0 + Head(dg)[2] + Head(dg)[1]>>>>
         \o TimesOf(Tail(dg), t0 + Head(dg)[2] + Head(dg)[1])

InitInteg ==
    \E N \in 1..MaxRecords : \E dg \in [1..N -> Durations \X Gaps] : \E T \in IntTimes :
       LET tms == TimesOf(SeqOf(dg, N), 0)
       IN Constructed(File(N, 1, tms, Const1(1, 200000), Const1(1, 65000),
                           Const1(1, 10000), [g \in 1..1 |-> Axis(g)],
                           [t \in 1..N |-> [g \in 1..1 |-> t]],
                           Const2(N, 1, 1), Const2(N, 1, 9)),
                      0, 5, T, <<1, 1, 1>>, PassPPP, 150, 500, 1)

SpecInteg == InitInteg /\ [][Next]_vars

----------------------------------------------------------------------------
(* Properties of get_integration_periods.                                  *)

AfterIntegration == pc \in {"compute_vectors", "done"}

\* the record indices of window p as a list
window(p) == tidx_records(int_idx[p], integration_time)

\* C1: with or without an integration time, the record-index lists of the
\* windows, concatenated in window order, are exactly 0,1,...,N-1: every
\* record is in exactly one window and each window is a contiguous run.
C1_WindowsPartitionRecords ==
    AfterIntegration =>
        Flatten(SeqOf([p \in 1..Len(int_idx) |-> window(p)], Len(int_idx)))
            = SeqOf([i \in 1..Len(time) |-> i], Len(time))

\* a run with an integration time that produced several windows, one of
\* them of several records
C1_Witness ==
    /\ pc = "done"
    /\ Truthy(integration_time)
    /\ Len(int_idx) >= 2
    /\ \E p \in 1..Len(int_idx) : Len(int_idx[p]) >= 2

\* C2: with an integration time configured, every window's (start,end) is
\* the start of its first record and the end of its last record, every
\* window but the last lasts at least the integration time, and no record
\* before a window's last one had already reached the target.
C2_WindowsReachTarget ==
    (AfterIntegration /\ Truthy(integration_time)) =>
        /\ Len(int_period) = Len(int_idx)
        /\ \A p \in 1..Len(int_idx) :
             LET w == int_idx[p]
                 s == time[w[1]][1]
                 e == time[w[Len(w)]][2]
             IN /\ int_period[p] = <<s, e>>
                /\ p < Len(int_idx) => e - s >= integration_time
                /\ \A j \in 1..(Len(w) - 1) : time[w[j]][2] - s < integration_time

\* a window of several records that reached the target, followed by a last
\* window that is shorter than the target
C2_Witness ==
    /\ pc = "done"
    /\ Truthy(integration_time)
    /\ Len(int_idx) >= 2
    /\ Len(int_idx[1]) >= 2
    /\ LET q == int_period[Len(int_period)] IN q[2] - q[1] < integration_time

----------------------------------------------------------------------------
(* Files and configurations for filter_data: every entry is a good         *)
(* measurement but one, every gate is at 200 km but one.                   *)

\* (vlos, dvlos, ne) of an entry: good, density below neMin, NaN in the
\* file, error above both thresholds, NaN error only
EntryKinds == {<<3, 1, 9>>, <<3, 1, 1>>, <<NaN, NaN, 9>>, <<3, 9, 9>>, <<3, NaN, 9>>}
GoodEntry == <<3, 1, 9>>

\* altitudes in metres: below MINALT, inside, above MAXALT
GateAlts == {100000, 200000, 900000}
Chirps == {0, 2}
FilterPPP == <<1, 1, 0, 5>>

InitFilter ==
    \E N \in 1..MaxRecords : \E M \in 1..MaxGates :
    \E st \in 1..N : \E sg \in 1..M : \E k \in EntryKinds :
    \E ag \in 1..M : \E a \in GateAlts : \E c \in Chirps :
       LET e(t, g) == IF t = st /\ g = sg THEN k ELSE GoodEntry
       IN Constructed(File(N, M, [i \in 1..N |-> <<i - 1, i>>],
                           [g \in 1..M |-> IF g = ag THEN a ELSE 200000],
                           Const1(M, 65000), Const1(M, 10000),
                           [g \in 1..M |-> Axis(g)],
                           [t \in 1..N |-> [g \in 1..M |-> e(t, g)[1]]],
                           [t \in 1..N |-> [g \in 1..M |-> e(t, g)[2]]],
                           [t \in 1..N |-> [g \in 1..M |-> e(t, g)[3]]]),
                      c, 5, None, <<1, 1, 1>>, FilterPPP, 150, 500, 1)

SpecFilter == InitFilter /\ [][Next]_vars

----------------------------------------------------------------------------
(* Properties of filter_data.                                              *)

\* filter_data has run: it returned, or it raised
AfterFilter == pc # "read_data" /\ (pc = "filter_data" => raised # "none")

OutOfRange(g) ==
    FLt(datafile.Altitude[g], minalt * 1000) \/ FGt(datafile.Altitude[g], maxalt * 1000)

Entries == (1..Len(datafile.Fits)) \X (1..Len(datafile.Altitude))

\* the entry is nulled by the density step or by the error step
NulledByOtherStep(t, g) ==
    \/ FLt(datafile.Ne[t][g], neMin)
    \/ /\ filter_fracerr_gt(datafile.Errors[t][g], FAdd(datafile.Fits[t][g], chirp),
                             ppp[1], ppp[2])
       /\ FGt(FAbs(datafile.Errors[t][g]), ppp[4])

\* C3: after filter_data, every entry of a gate whose altitude is below
\* minalt*1000 m or above maxalt*1000 m is NaN in vlos and dvlos, and every
\* entry of an in-range gate that the density and error steps leave alone
\* still holds its value (the fitted velocity plus the chirp, the fitted
\* error), whatever its record index.
C3_AltitudeStepNullsGates ==
    AfterFilter =>
        \A e \in Entries :
            LET t == e[1]
                g == e[2]
            IN IF OutOfRange(g)
               THEN vlos[t][g] = NaN /\ dvlos[t][g] = NaN
               ELSE ~NulledByOtherStep(t, g) =>
                       /\ vlos[t][g] = FAdd(datafile.Fits[t][g], chirp)
                       /\ dvlos[t][g] = datafile.Errors[t][g]

NumFinite(arr) == Cardinality({e \in Entries : IsFinite(arr[e[1]][e[2]])})

\* C10: after filter_data, every entry whose density is below neMin is NaN
\* in vlos and in dvlos, every entry that was NaN in the file is still NaN,
\* and neither array has more finite entries than the file had.
C10_DensityStepNulls ==
    AfterFilter =>
        /\ \A e \in Entries :
              LET t == e[1]
                  g == e[2]
              IN /\ FLt(datafile.Ne[t][g], neMin) =>
                        (vlos[t][g] = NaN /\ dvlos[t][g] = NaN)
                 /\ IsNaN(datafile.Fits[t][g]) => IsNaN(vlos[t][g])
                 /\ IsNaN(datafile.Errors[t][g]) => IsNaN(dvlos[t][g])
        /\ NumFinite(vlos) <= NumFinite(datafile.Fits)
        /\ NumFinite(dvlos) <= NumFinite(datafile.Errors)

\* filter_data returned on a file with an entry below neMin whose fitted
\* values were finite, next to entries it kept
C10_Witness ==
    /\ AfterFilter
    /\ raised = "none"
    /\ \E e \in Entries :
          /\ FLt(datafile.Ne[e[1]][e[2]], neMin)
          /\ IsFinite(datafile.Fits[e[1]][e[2]])
          /\ IsFinite(datafile.Errors[e[1]][e[2]])
    /\ NumFinite(vlos) >= 1

----------------------------------------------------------------------------
(* Files for transform and bin_data: one record, every measurement good,   *)
(* and gate positions drawn gate by gate.                                  *)

\* magnetic latitudes (millidegrees) around the bin edges: below the first
\* edge, on it, just under and on an interior edge, just under and on the
\* last edge, and no position at all
EdgeLats == {63999, 64000, 64249, 64250, 67749, 67750, NaN}
GeomLons == {10000, 20000}

\* gate positions that the stand-in geomagnetic model maps to given mlats
InitBins ==
    \E M \in 1..MaxGates : \E ml \in [1..M -> EdgeLats] : \E lo \in GeomLons :
       Constructed(File(1, M, <<<<0, 1>>>>,
                        [g \in 1..M |-> IF ml[g] = NaN THEN NaN ELSE 200000],
                        [g \in 1..M |-> IF ml[g] = NaN THEN NaN ELSE ml[g] - 200],
                        [g \in 1..M |-> IF ml[g] = NaN THEN NaN ELSE lo * g],
                        [g \in 1..M |-> Axis(g)],
                        Const2(1, M, 3), Const2(1, M, 1), Const2(1, M, 9)),
                   0, 5, None, <<1, 1, 1>>, PassPPP, 50, 500, 1)

\* every gate has its own latitude, longitude and altitude, each of them
\* present or NaN
InitPositions ==
    \E M \in 1..MaxGates : \E nla \in SUBSET (1..M) : \E nlo \in SUBSET (1..M) :
    \E nal \in SUBSET (1..M) :
       Constructed(File(1, M, <<<<0, 1>>>>,
                        [g \in 1..M |-> IF g \in nal THEN NaN ELSE 100000 * g],
                        [g \in 1..M |-> IF g \in nla THEN NaN ELSE 64000 + 500 * g],
                        [g \in 1..M |-> IF g \in nlo THEN NaN ELSE 10000 * g],
                        [g \in 1..M |-> Axis(g)],
                        Const2(1, M, 3), Const2(1, M, 1), Const2(1, M, 9)),
                   0, 5, None, <<1, 1, 1>>, PassPPP, 50, 500, 1)

InitGeom == InitBins \/ InitPositions

SpecGeom == InitGeom /\ [][Next]_vars

----------------------------------------------------------------------------
(* Properties of bin_data and transform.                                   *)

AfterBin == pc \in {"get_integration_periods", "compute_vectors", "done"}

\* gate g is listed in bin i
InBinIdx(g, i) == \E k \in 1..Len(bin_idx[i]) : bin_idx[i][k] = g

BinsOf(g) == {i \in 1..Len(bin_idx) : InBinIdx(g, i)}

\* C8: after bin_data there is one gate list for each pair of adjacent
\* edges 64.0, 64.25, ..., 67.75; gate g is in list i exactly when
\* edge_i <= mlat[g] < edge_(i+1); no gate is in two lists; a gate whose
\* mlat is NaN, below the first edge or not below the last edge is in none.
\* Membership is a function of mlat alone, so mlon has no part in it.
C8_BinMembership ==
    AfterBin =>
        /\ Len(bin_idx) = ((BinStop - BinStart) \div BinStep) - 1
        /\ \A g \in 1..Len(mlat) :
              /\ \A i \in 1..Len(bin_idx) :
                    InBinIdx(g, i) <=>
                        /\ mlat[g] # NaN
                        /\ BinStart + (i - 1) * BinStep <= mlat[g]
                        /\ mlat[g] < BinStart + i * BinStep
              /\ Cardinality(BinsOf(g)) <= 1
              /\ (mlat[g] = NaN \/ mlat[g] < BinStart \/ mlat[g] >= BinStop - BinStep)
                     => BinsOf(g) = {}

\* gates on an interior edge, without a position and outside the edges,
\* in one file: the first is in the bin that starts at its edge
C8_Witness ==
    /\ AfterBin
    /\ \E g \in 1..Len(mlat) : mlat[g] = BinStart + BinStep /\ BinsOf(g) = {2}
    /\ \E g \in 1..Len(mlat) : mlat[g] = NaN
    /\ \E g \in 1..Len(mlat) : mlat[g] = BinStop - BinStep

\* transform has run: it returned, or it raised
AfterTransform ==
    \/ pc \notin {"read_data", "filter_data", "transform"}
    \/ pc = "transform" /\ raised # "none"

FinitePosition(g) ==
    /\ IsFinite(datafile.Latitude[g])
    /\ IsFinite(datafile.Longitude[g])
    /\ IsFinite(datafile.Altitude[g])

\* C9: after transform, for any pattern of NaN latitudes, longitudes and
\* altitudes: transform did not raise, mlat, mlon, A and D are as long as
\* the gate arrays, a gate with a NaN latitude, longitude or altitude has
\* NaN mlat, mlon, A and D at its own index, and a gate with a finite
\* position has at its own index the geomagnetic model's result for its
\* own (lat, lon, alt/1000).
C9_TransformKeepsAlignment ==
    AfterTransform =>
        /\ raised = "none"
        /\ Len(mlat) = Len(datafile.Altitude)
        /\ Len(mlon) = Len(datafile.Altitude)
        /\ Len(A) = Len(datafile.Altitude)
        /\ Len(D) = Len(datafile.Altitude)
        /\ \A g \in 1..Len(datafile.Altitude) :
              IF FinitePosition(g)
              THEN LET own == <<datafile.Latitude[g], datafile.Longitude[g],
                                datafile.Altitude[g] \div 1000>>
                       d == Apex_basevectors(own[1], own[2], own[3])
                       k == <<datafile.ke[g], datafile.kn[g], datafile.kz[g]>>
                   IN /\ <<mlat[g], mlon[g]>> = Apex_geo2apex(own[1], own[2], own[3])
                      /\ A[g] = <<Dot3(k, d[1]), Dot3(k, d[2]), Dot3(k, d[3])>>
                      /\ IsFinite(D[g])
              ELSE /\ mlat[g] = NaN
                   /\ mlon[g] = NaN
                   /\ A[g] = NaNvec
                   /\ D[g] = NaN

----------------------------------------------------------------------------
(* Files and configurations for compute_vectors and vvels: gates three to  *)
(* a bin or in a bin each, k vectors parallel or along one axis each,      *)
(* every measurement good but one in the first or the last record.  The    *)
(* zero prior variance and MINNUMPOINTS 0 go with all-good files.          *)

\* (vlos, dvlos) of a measurement: good, NaN error, zero error, NaN velocity
MeasKinds == {<<2, 1>>, <<2, NaN>>, <<2, 0>>, <<NaN, 1>>}
GoodMeas == <<2, 1>>

\* prior variances of COVAR; the second has a zero variance
Covars == {<<1, 1, 1>>, <<2, 1, 0>>}
MinNumPoints == {0, 1, 2}
VvelsIntTimes == {None, 2}

InitVvels ==
    \E N \in 1..MaxRecords : \E M \in 1..MaxGates :
    \E st \in {1, N} : \E sg \in 1..M : \E k \in MeasKinds :
    \E cv \in Covars : \E mnp \in MinNumPoints : \E T \in VvelsIntTimes :
    \E shared \in BOOLEAN : \E parallel \in BOOLEAN :
       /\ k = GoodMeas \/ cv = <<1, 1, 1>>
       /\ k = GoodMeas => (st = 1 /\ sg = 1)
       /\ k = GoodMeas \/ mnp >= 1
       /\ parallel => shared
       /\ LET e(t, g) == IF t = st /\ g = sg THEN k ELSE GoodMeas
          IN Constructed(File(N, M, [i \in 1..N |-> <<i - 1, i>>],
                              Const1(M, 200000),
                              [g \in 1..M |->
                                  IF shared THEN 64900 + BinStep * ((g - 1) \div 3)
                                            ELSE 64900 + BinStep * (g - 1)],
                              Const1(M, 10000),
                              [g \in 1..M |-> IF parallel THEN Axis(1) ELSE Axis(g)],
                              [t \in 1..N |-> [g \in 1..M |-> e(t, g)[1]]],
                              [t \in 1..N |-> [g \in 1..M |-> e(t, g)[2]]],
                              Const2(N, M, 9)),
                         0, 5, T, cv, PassPPP, 150, 500, mnp)

SpecVvels == InitVvels /\ [][Next]_vars

----------------------------------------------------------------------------
(* Properties of vvels and compute_vectors.  A cell is an integration      *)
(* period p and a bin b whose result has been stored.                      *)

Cells == (1..Len(Velocity)) \X (1..Len(bin_idx))

cell_vlos(c) == cell_los(vlos, int_idx[c[1]], bin_idx[c[2]], integration_time)
cell_dvlos(c) == cell_los(dvlos, int_idx[c[1]], bin_idx[c[2]], integration_time)
cell_kvecs(c) == cell_A(A, int_idx[c[1]], bin_idx[c[2]], integration_time)

\* the measurements of a cell whose velocity and error are both finite
BothFinite(c) ==
    SeqOf([i \in 1..Len(cell_vlos(c)) |->
              IsFinite(cell_vlos(c)[i]) /\ IsFinite(cell_dvlos(c)[i])],
          Len(cell_vlos(c)))

\* what vvels is handed for the cell, and what it keeps of it
Retained(c, arr) == Mask(arr, vvels_finite(cell_vlos(c)))

IsNaN3(V) == V = NaN3
IsNaN33(S) == S = NaN33
NoNaN3(V) == \A k \in 1..3 : ~RIsNaN(V[k])
NoNaN33(S) == \A j \in 1..3 : \A k \in 1..3 : ~RIsNaN(S[j][k])

\* C4: the result of every cell is the one vvels gives for the cell's
\* measurements with finite velocity and finite error only: a measurement
\* with a non-finite velocity or a non-finite error is not in the matrices
\* and not in the count compared with minnumpoints.
C4_NonFiniteDiscarded ==
    \A c \in Cells :
        LET keep == BothFinite(c)
            r == vvels(Mask(cell_vlos(c), keep), Mask(cell_dvlos(c), keep),
                       Mask(cell_kvecs(c), keep), covar, minnumpoints, FALSE)
        IN /\ Velocity[c[1]][c[2]] = r.V
           /\ VelocityCovariance[c[1]][c[2]] = r.SigV

\* C5: a cell with fewer measurements of finite velocity and error than
\* minnumpoints has velocity NaN(3) and covariance NaN(3x3), whatever the
\* inversion gave.
C5_TooFewPointsIsNaN ==
    \A c \in Cells :
        CountTrue(BothFinite(c)) < minnumpoints =>
            /\ IsNaN3(Velocity[c[1]][c[2]])
            /\ IsNaN33(VelocityCovariance[c[1]][c[2]])

\* the inversion of the cell went through and gave a finite posterior
InversionSucceeded(c) ==
    LET r == vvels(cell_vlos(c), cell_dvlos(c), cell_kvecs(c), covar, 0, FALSE)
    IN ~r.caught /\ NoNaN3(r.V) /\ NoNaN33(r.SigV)

\* the except branch ran for the cell
InversionFailed(c) ==
    vvels(cell_vlos(c), cell_dvlos(c), cell_kvecs(c), covar, 0, FALSE).caught

\* a finished run with a cell of one good measurement under a minimum of
\* two, the inversion having succeeded
C5_Witness ==
    /\ pc = "done"
    /\ \E c \in Cells :
          /\ CountTrue(BothFinite(c)) >= 1
          /\ CountTrue(BothFinite(c)) < minnumpoints
          /\ InversionSucceeded(c)

Det3(r1, r2, r3) ==
    r1[1] * (r2[2] * r3[3] - r2[3] * r3[2])
      - r1[2] * (r2[1] * r3[3] - r2[3] * r3[1])
      + r1[3] * (r2[1] * r3[2] - r2[2] * r3[1])

\* the rows of A that vvels keeps for the cell have rank below 3
RankDeficient(c) ==
    LET rows == Retained(c, cell_kvecs(c))
    IN \A i \in 1..Len(rows) : \A j \in 1..Len(rows) : \A k \in 1..Len(rows) :
          Det3(rows[i], rows[j], rows[k]) = 0

ExactlySingular(c) ==
    \/ \E i \in 1..Len(Retained(c, cell_dvlos(c))) : Retained(c, cell_dvlos(c))[i] = 0
    \/ \E k \in 1..3 : covar[k] = 0

\* the errors kept for the cell are finite and not 0, the prior variances
\* positive
Regular(c) ==
    /\ \A i \in 1..Len(Retained(c, cell_dvlos(c))) :
          IsFinite(Retained(c, cell_dvlos(c))[i]) /\ Retained(c, cell_dvlos(c))[i] # 0
    /\ \A k \in 1..3 : IsFinite(covar[k]) /\ covar[k] > 0

CellResults(c) ==
    IF bin_idx[c[2]] = <<>>
    THEN {vvels(<<>>, <<>>, <<>>, covar, minnumpoints, FALSE)}
    ELSE {vvels(cell_vlos(c), cell_dvlos(c), cell_kvecs(c), covar, minnumpoints, nr) :
            nr \in BOOLEAN}

\* C7: when compute_vectors has finished nothing was raised, Velocity and
\* VelocityCovariance hold one row for every integration period in order
\* and each row one 3-vector and one 3x3 matrix for every bin in order,
\* the vvels result for that period's records and that bin's gates; with
\* minnumpoints >= 1 the result of a bin without gates is NaN(3)/NaN(3x3).
C7_DenseGrid ==
    pc = "done" =>
        /\ raised = "none"
        /\ Len(Velocity) = Len(int_idx)
        /\ Len(VelocityCovariance) = Len(int_idx)
        /\ \A p \in 1..Len(int_idx) :
              /\ Len(Velocity[p]) = Len(bin_idx)
              /\ Len(VelocityCovariance[p]) = Len(bin_idx)
        /\ \A c \in Cells : \E r \in CellResults(c) :
              /\ Velocity[c[1]][c[2]] = r.V
              /\ VelocityCovariance[c[1]][c[2]] = r.SigV
        /\ \A c \in Cells :
              /\ Len(Velocity[c[1]][c[2]]) = 3
              /\ Len(VelocityCovariance[c[1]][c[2]]) = 3
              /\ (bin_idx[c[2]] = <<>> /\ minnumpoints >= 1) =>
                    /\ IsNaN3(Velocity[c[1]][c[2]])
                    /\ IsNaN33(VelocityCovariance[c[1]][c[2]])

\* a finished run of several periods with a minimum of at least one point,
\* a bin without gates and a bin with a finite result
C7_Witness ==
    /\ pc = "done"
    /\ Len(int_idx) >= 2
    /\ minnumpoints >= 1
    /\ \E c \in Cells : bin_idx[c[2]] = <<>>
    /\ \E c \in Cells : bin_idx[c[2]] # <<>> /\ NoNaN3(Velocity[c[1]][c[2]])

----------------------------------------------------------------------------
(* Files and configurations for the error step of filter_data: every       *)
(* entry is good but one in the first or the last record, one gate may be  *)
(* above MAXALT.                                                           *)

\* (vlos, dvlos, ne): good; over both thresholds; over the relative one
\* only; over the absolute one only; over both without the chirp and over
\* the absolute one only with it; over both and below NEMIN; NaN error
ErrKinds == {<<3, 1, 9>>, <<3, 9, 9>>, <<3, 5, 9>>, <<9, 6, 9>>, <<7, 9, 9>>,
             <<3, 9, 1>>, <<3, NaN, 9>>}
ErrAlts == {200000, 900000}

InitErr ==
    \E N \in 1..MaxRecords : \E M \in 1..MaxGates :
    \E st \in {1, N} : \E sg \in 1..M : \E k \in ErrKinds :
    \E a \in ErrAlts : \E c \in Chirps :
       LET e(t, g) == IF t = st /\ g = sg THEN k ELSE GoodEntry
       IN Constructed(File(N, M, [i \in 1..N |-> <<i - 1, i>>],
                           [g \in 1..M |-> IF g = 1 THEN a ELSE 200000],
                           Const1(M, 65000), Const1(M, 10000),
                           [g \in 1..M |-> Axis(g)],
                           [t \in 1..N |-> [g \in 1..M |-> e(t, g)[1]]],
                           [t \in 1..N |-> [g \in 1..M |-> e(t, g)[2]]],
                           [t \in 1..N |-> [g \in 1..M |-> e(t, g)[3]]]),
                      c, 5, None, <<1, 1, 1>>, FilterPPP, 150, 500, 1)

SpecErr == InitErr /\ [][Next]_vars

----------------------------------------------------------------------------
(* Properties of the error step of filter_data.                            *)

\* filter_data returned
FilterReturned == pc \notin {"read_data", "filter_data"}

\* the entry holds its value when the error step starts: its density is
\* not below neMin and the altitude step has not set its record to NaN
Survived(t, g) ==
    /\ ~FLt(datafile.Ne[t][g], neMin)
    /\ \A h \in 1..Len(datafile.Altitude) : OutOfRange(h) => h # t

\* |dvlos|/(|vlos|+p0) > p1 for the chirp-adjusted velocity, with |vlos|+p0
\* positive, and |dvlos| > p3; a NaN on either side fails both
OverRelative(t, g) ==
    /\ IsFinite(datafile.Fits[t][g]) /\ IsFinite(datafile.Errors[t][g])
    /\ Abs(datafile.Errors[t][g]) > ppp[2] * (Abs(datafile.Fits[t][g] + chirp) + ppp[1])
OverAbsolute(t, g) ==
    IsFinite(datafile.Errors[t][g]) /\ Abs(datafile.Errors[t][g]) > ppp[4]

\* C11: when filter_data has returned, an entry that held its value at the
\* start of the error step is NaN in vlos and dvlos if it is over both the
\* relative and the absolute threshold, and otherwise holds the fitted
\* velocity plus the chirp and the fitted error.
C11_ErrorStepNeedsBothTests ==
    FilterReturned =>
        \A e \in Entries :
            LET t == e[1]
                g == e[2]
            IN Survived(t, g) =>
                  IF OverRelative(t, g) /\ OverAbsolute(t, g)
                  THEN vlos[t][g] = NaN /\ dvlos[t][g] = NaN
                  ELSE /\ vlos[t][g] = FAdd(datafile.Fits[t][g], chirp)
                       /\ dvlos[t][g] = datafile.Errors[t][g]

\* filter_data returned on a file with a surviving entry over one threshold
\* only, which kept its values under a chirp that is not zero
C11_Witness ==
    /\ FilterReturned
    /\ chirp # 0
    /\ \E e \in Entries :
          /\ Survived(e[1], e[2])
          /\ OverAbsolute(e[1], e[2]) /\ ~OverRelative(e[1], e[2])
          /\ IsFinite(vlos[e[1]][e[2]])
          /\ dvlos[e[1]][e[2]] = datafile.Errors[e[1]][e[2]]

----------------------------------------------------------------------------
(* Files with two beams, the second one pointing up B.  The up-B gates    *)
(* are the knots of the interpolation; the gates of the first beam lie    *)
(* at the knots shifted by UpBOffset, so that they fall on a knot, midway *)
(* between two knots, or below the lowest knot.  D is 1 and the third     *)
(* component of A is kz under the stand-in basis.                         *)

\* a file whose gate axis is (beam, range): the beam codes and the number of
\* ranges per beam, then the flattened arrays as in File
FileB(codes, NR, file) == [BeamCodes |-> codes, NRanges |-> NR, UnixTime |-> file.UnixTime, Altitude |-> file.Altitude, Latitude |-> file.Latitude, Longitude |-> file.Longitude, ke |-> file.ke, kn |-> file.kn, kz |-> file.kz, Fits |-> file.Fits, Errors |-> file.Errors, Ne |-> file.Ne]

UpBCodes == <<101, 202>>
UpBConfigured == {None, 202, 303}
UpBOffsets == {0, 50000, -100000}
UpBErrors == {0, 3}
UpBKnot(r) == 200000 + 100000 * (r - 1)

InitUpB ==
    \E N \in 1..MaxRecords : \E NR \in 1..MaxGates :
    \E code \in UpBConfigured : \E off \in UpBOffsets : \E ue \in UpBErrors :
    \E low \in BOOLEAN : \E c \in Chirps :
       /\ off = 50000 => ue = 0
       /\ LET M == 2 * NR
              up(g) == g > NR
              rng(g) == ((g - 1) % NR) + 1
              al == [g \in 1..M |-> IF up(g) THEN UpBKnot(rng(g)) ELSE UpBKnot(rng(g)) + off]
          IN Configured(FileB(UpBCodes, NR,
                   File(N, M, [i \in 1..N |-> <<i - 1, i>>],
                        al,
                        [g \in 1..M |-> 64100 + BinStep * (g - 1) - (al[g] \div 1000)],
                        Const1(M, 10000),
                        [g \in 1..M |-> IF up(g) THEN Axis(1) ELSE Axis(3)],
                        [t \in 1..N |-> [g \in 1..M |->
                            IF up(g) THEN 20 * (rng(g) + t) ELSE 10 * g + t]],
                        [t \in 1..N |-> [g \in 1..M |-> IF up(g) THEN ue ELSE 4]],
                        [t \in 1..N |-> [g \in 1..M |->
                            IF low /\ t = 1 /\ g = 1 THEN 1 ELSE 9]])),
                      c, 5, None, <<1, 1, 1>>, PassPPP, 50, 900, 1, code)

SpecUpB == InitUpB /\ [][Next]_vars

\* ion_outflow_correction has been entered with an up-B beam configured
OutflowEntered == Truthy(upB_beamcode) /\ pc \notin {"read_data", "filter_data", "transform"}

\* x lies outside the range of the knots xp
OutsideKnots(x, xp) == \/ ~IsFinite(x)
                       \/ \A k \in 1..Len(xp) : FLt(x, xp[k])
                       \/ \A k \in 1..Len(xp) : FGe(x, xp[k])

StrictlyIncreasing(xp) == \A k \in 1..(Len(xp) - 1) : FLt(xp[k], xp[k + 1])

\* C12: lin_interp never raises on out-of-range or degenerate input: with an
\* empty or single-element up-B array, and for every target outside the
\* range of the up-B altitudes, the call completes and the value and error
\* of that target are NaN; for a target inside the range of strictly
\* increasing knots the index i satisfies xp[i] <= x < xp[i+1].
C12_LinInterpNeverRaises ==
    OutflowEntered =>
       \A t \in 1..Len(time) :
          LET xp == upB.alt
              r == lin_interp(alt, xp, upB.vlos[t], upB.dvlos[t])
              i == lin_interp_i(alt, xp)
          IN \A g \in 1..Len(alt) :
                /\ (Len(xp) <= 1 \/ OutsideKnots(alt[g], xp)) =>
                      /\ r.raised = "none"
                      /\ RIsNaN(r.f[g]) /\ RIsNaN(r.df[g])
                /\ (Len(xp) >= 2 /\ StrictlyIncreasing(xp) /\ ~OutsideKnots(alt[g], xp)) =>
                      /\ r.raised = "none"
                      /\ FGe(alt[g], PyAt(xp, i[g])) /\ FLt(alt[g], PyAt(xp, i[g] + 1))

\* what the code does keep: with at least one knot the call
\* completes, targets outside the range get NaN, targets inside are bracketed
LinInterpOnKnots ==
    (OutflowEntered /\ upB.alt # <<>>) =>
       \A t \in 1..Len(time) :
          LET xp == upB.alt
              r == lin_interp(alt, xp, upB.vlos[t], upB.dvlos[t])
              i == lin_interp_i(alt, xp)
          IN /\ r.raised = "none"
             /\ \A g \in 1..Len(alt) :
                   IF OutsideKnots(alt[g], xp)
                   THEN RIsNaN(r.f[g]) /\ RIsNaN(r.df[g])
                   ELSE /\ FGe(alt[g], PyAt(xp, i[g])) /\ FLt(alt[g], PyAt(xp, i[g] + 1))
                        /\ ~RIsNaN(r.f[g]) /\ ~RIsNaN(r.df[g])

\* the up-B beam named in the configuration is not in the file and the
\* correction has raised
UpBMissingRaised == OutflowEntered /\ upB.alt = <<>> /\ raised = "ValueError"

----------------------------------------------------------------------------
(* The electric field, checked under SpecVvels.                            *)

Be3(b) == Apex_Be3(bin_mlat[b], bin_mlon[b])
Zero3 == <<RZero, RZero, RZero>>

\* E = -V x B with B = Be3 e3 for the cell's own bin
CrossField(c) ==
    <<RSub(RZero, RMul(Be3(c[2]), Velocity[c[1]][c[2]][2])),
      RMul(Be3(c[2]), Velocity[c[1]][c[2]][1]),
      RZero>>

\* C13 as stated: ElectricField[p][b] = (-Be3[b]*Ve2, Be3[b]*Ve1, 0) with the
\* bin's own Be3 and velocity in every cell; a zero velocity gives a zero
\* field, and Ed3 is 0 in every cell.
C13_FieldIsCrossProduct ==
    pc = "done" =>
       \A c \in Cells :
          /\ ElectricField[c[1]][c[2]] = CrossField(c)
          /\ Velocity[c[1]][c[2]] = Zero3 => ElectricField[c[1]][c[2]] = Zero3
          /\ ElectricField[c[1]][c[2]][3] = RZero

\* C13: in a cell whose velocity and Be3 are finite the field is
\* (-Be3*Ve2, Be3*Ve1, 0) with the bin's own Be3 and velocity, zero for a
\* zero velocity; in a cell whose velocity is NaN, or whose Be3 is NaN, all
\* three components of the field are NaN, Ed3 included.
C13_FieldOfFiniteVelocity ==
    pc = "done" =>
       /\ Len(ElectricField) = Len(Velocity)
       /\ \A c \in Cells :
             LET V == Velocity[c[1]][c[2]]
                 E == ElectricField[c[1]][c[2]]
             IN /\ (NoNaN3(V) /\ ~RIsNaN(Be3(c[2]))) =>
                      /\ E = CrossField(c)
                      /\ V = Zero3 => E = Zero3
                /\ (IsNaN3(V) \/ RIsNaN(Be3(c[2]))) => IsNaN3(E)

\* a finished run with a cell of non-zero velocity and field, and a cell in
\* another bin, with another Be3, whose velocity and field are zero
C13_Witness ==
    /\ pc = "done"
    /\ \E c \in Cells : \E d \in Cells :
          /\ NoNaN3(Velocity[c[1]][c[2]])
          /\ Velocity[c[1]][c[2]][1] # RZero
          /\ ElectricField[c[1]][c[2]][2] # RZero
          /\ ElectricField[c[1]][c[2]] = CrossField(c)
          /\ Be3(d[2]) # Be3(c[2])
          /\ ~RIsNaN(Be3(d[2]))
          /\ Velocity[d[1]][d[2]] = Zero3
          /\ ElectricField[d[1]][d[2]] = Zero3

\* a finished run with a cell whose velocity is NaN and whose Be3 is finite
NaNVelocityCell ==
    /\ pc = "done"
    /\ \E c \in Cells : IsNaN3(Velocity[c[1]][c[2]]) /\ ~RIsNaN(Be3(c[2]))

----------------------------------------------------------------------------
(* What a stage leaves of the arrays of the stages before it, checked      *)
(* under SpecUpB.                                                          *)

\* what filter_data makes of the arrays of the file
Filtered == filter_data(datafile.Fits, datafile.Errors, datafile.Ne, datafile.Altitude, chirp, neMin, minalt, maxalt, ppp)

\* ion_outflow_correction has returned
AfterOutflow == pc \in {"bin_data", "get_integration_periods", "compute_vectors", "done"}

\* C14: no stage modifies in place an array that an earlier stage produced:
\* after filter_data the vlos and dvlos arrays that read_data built still
\* hold the values of the file; after ion_outflow_correction the arrays that
\* filter_data produced are unchanged; without an up-B beam
\* ion_outflow_correction changes nothing.
C14_StagesKeepEarlierArrays ==
    /\ AfterFilter => (read_vlos = datafile.Fits /\ read_dvlos = datafile.Errors)
    /\ AfterOutflow => (filt_vlos = Filtered.vlos /\ filt_dvlos = Filtered.dvlos)
    /\ (AfterOutflow /\ ~Truthy(upB_beamcode)) => (vlos = Filtered.vlos /\ dvlos = Filtered.dvlos)

\* what the code does keep of this: filter_data leaves the vlos
\* array of read_data alone, and ion_outflow_correction without an up-B beam
\* leaves everything alone
VlosOfFileKept ==
    /\ AfterFilter => read_vlos = datafile.Fits
    /\ (AfterOutflow /\ ~Truthy(upB_beamcode)) =>
          (vlos = Filtered.vlos /\ dvlos = Filtered.dvlos /\ filt_vlos = vlos /\ filt_dvlos = dvlos)

\* filter_data has nulled an error in the array read_data built
ErrorsOfFileNulled ==
    /\ AfterFilter
    /\ \E t \in 1..Len(read_dvlos) : \E g \in 1..Len(read_dvlos[t]) :
          read_dvlos[t][g] = NaN /\ datafile.Errors[t][g] # NaN

\* ion_outflow_correction has changed a velocity and an error, both still
\* finite, in the arrays filter_data produced
FilteredArraysCorrected ==
    /\ AfterOutflow
    /\ \E t \in 1..Len(filt_vlos) : \E g \in 1..Len(filt_vlos[t]) :
          /\ IsFinite(filt_vlos[t][g]) /\ filt_vlos[t][g] # Filtered.vlos[t][g]
          /\ IsFinite(filt_dvlos[t][g]) /\ filt_dvlos[t][g] # Filtered.dvlos[t][g]

----------------------------------------------------------------------------
(* The order of the measurements and of the rows of A handed to vvels,     *)
(* checked under SpecVvels.                                                *)

\* the records of period p, and the gate and record that position i of a
\* flattened (gate, record) block of n records per gate belongs to
PeriodRecords(p) == tidx_records(int_idx[p], integration_time)
GateAt(i, n) == ((i - 1) \div n) + 1
RecordAt(i, n) == ((i - 1) % n) + 1

InComputeVectors == pc \in {"compute_vectors", "done"} /\ raised = "none"

\* C15: in every cell the i-th velocity, the i-th error and the i-th row of
\* A handed to vvels belong to the same gate.  The G*T measurements are in
\* (gate, record) order, all records of the first gate first, and the rows
\* of A are duplicated in that order; without an integration time there is
\* one record and one row of A per gate.
C15_RowsMatchMeasurements ==
    InComputeVectors =>
       \A c \in Cells :
          LET tl == PeriodRecords(c[1])
              bidx == bin_idx[c[2]]
              n == Len(tl)
          IN /\ Len(cell_vlos(c)) = Len(bidx) * n
             /\ Len(cell_dvlos(c)) = Len(bidx) * n
             /\ Len(cell_kvecs(c)) = Len(bidx) * n
             /\ ~Truthy(integration_time) => n = 1
             /\ \A i \in 1..(Len(bidx) * n) :
                   /\ cell_vlos(c)[i] = vlos[tl[RecordAt(i, n)]][bidx[GateAt(i, n)]]
                   /\ cell_dvlos(c)[i] = dvlos[tl[RecordAt(i, n)]][bidx[GateAt(i, n)]]
                   /\ cell_kvecs(c)[i] = A[bidx[GateAt(i, n)]]

\* a finished run with an integration time and a cell of at least two
\* records and two gates whose rows of A differ
C15_Witness ==
    /\ pc = "done"
    /\ Truthy(integration_time)
    /\ \E c \in Cells :
          /\ Len(PeriodRecords(c[1])) >= 2
          /\ Len(bin_idx[c[2]]) >= 2
          /\ A[bin_idx[c[2]][1]] # A[bin_idx[c[2]][2]]
          /\ Len(cell_kvecs(c)) = Len(cell_vlos(c))
          /\ cell_kvecs(c)[2] = A[bin_idx[c[2]][1]]

\* a run without an integration time in a cell of at least two gates
OneRowPerGate ==
    /\ pc = "done"
    /\ ~Truthy(integration_time)
    /\ \E c \in Cells : Len(bin_idx[c[2]]) >= 2 /\ Len(cell_kvecs(c)) = Len(bin_idx[c[2]])

============================================================================
